---- MODULE Spec2Model ----
(***************************************************************************)
(* A state-machine model of new_look_scraper.py: the bounded-retry HTTP    *)
(* fetcher (get_response), the page fetcher (get_json), the pagination     *)
(* reader (get_page_count), the item extractor (get_items), the image      *)
(* downloader (save_image), the record writer (save_items) and the         *)
(* orchestrator (scrape).  The network, the API payloads and the file      *)
(* system are the environment: their outcomes are chosen with \E.          *)
(***************************************************************************)
EXTENDS Integers, Sequences, FiniteSets, TLC

\* ------------------------------------------------------------------ bounds
\* Largest page count the API announces, and most raw entries in one page.
MaxPages == 2
MaxItems == 2

\* ------------------------------------------------------- program constants
MAX_RETRIES == 3
SLEEP_TIME == 1
IMAGE_DIR == "img"

\* ------------------------------------------------------------ Python values
\* A Python value as far as scrape() looks at it: the bool False, an int, a
\* truthy value that is no int (a str, a float), or a missing key.
PyFalse == [t |-> "bool", v |-> 0]
PyInt(n) == [t |-> "int", v |-> n]
PyStr == [t |-> "str", v |-> 1]
Absent == [t |-> "absent", v |-> 0]

\* `not x` of Python for the values above.
FalsyMissesZero(x) == x.t = "bool"
Falsy(x) == (x.t = "bool" /\ x.v = 0) \/ (x.t = "int" /\ x.v = 0)

\* ------------------------------------------------------------- API payloads
\* One raw entry of json['data']['results']: `fields` says whether the keys
\* name, url, price.formattedValue and description are all there, `images`
\* is the entry's image list (protocol-relative URLs, as path segments).
\* The entries are: a complete one, one with an empty image list, one that
\* lacks a key.
ItemId(p, i) == <<p, i>>
RemotePath(id) == <<"//media.newlook.com", id>>
EntryKinds == {"complete", "no images", "no key"}
RawItem(p, i, kind) ==
    [id |-> ItemId(p, i),
     fields |-> kind # "no key",
     images |-> IF kind = "no images" THEN <<>> ELSE <<RemotePath(ItemId(p, i))>>]

\* The result lists of page p: up to MaxItems entries of any kind.
ResultShapes == UNION { [1 .. n -> EntryKinds] : n \in 0 .. MaxItems }
ResultLists(p) ==
    { [i \in 1 .. Len(shape) |-> RawItem(p, i, shape[i])] : shape \in ResultShapes }

\* Values json['data']['pagination']['numberOfPages'] can hold.
PageCounts == {Absent, PyStr} \cup { PyInt(n) : n \in -1 .. MaxPages }

\* The payloads of page p that parse to a dict with a truthy success flag.
\* results.present = FALSE stands for a payload without data.results.
\* numberOfPages is read from page 0 only: the later pages repeat the value
\* scrape() holds.
Payloads(p, count) ==
    { [numberOfPages |-> c, results |-> r] :
        c \in (IF p = 0 THEN PageCounts ELSE {count}),
        r \in { [present |-> TRUE, list |-> l] : l \in ResultLists(p) }
              \cup { [present |-> FALSE, list |-> <<>>] } }

NoJson == [numberOfPages |-> Absent, results |-> [present |-> FALSE, list |-> <<>>]]

\* ------------------------------------------------------------- output rows
Titles == <<"Item name", "URL", "Description", "Price", "Image">>
HeaderRow == [kind |-> "header", cells |-> Titles]
\* The row of an earlier run's product (one that the current run never sees).
OldId == ItemId(-1, 1)
LocalRef(name) == <<"file:///", "cwd", IMAGE_DIR, name>>
DataRow(item) == [kind |-> "data", name |-> item.name, image |-> item.image]
OldFile == <<HeaderRow, [kind |-> "data", name |-> OldId, image |-> LocalRef(OldId)]>>

Last(s) == s[Len(s)]

VARIABLES
    pc,          \* position of scrape(): Init, FetchFirstPage, ... Done, Failed
    ctx,         \* the caller get_response returns to
    page,        \* loop variable of scrape()
    page_count,  \* value returned by get_page_count
    json,        \* the payload scrape() holds
    items,       \* the list save_items iterates
    idx,         \* position of save_items in items (1-based)
    gr,          \* the running (or last) call of get_response
    dirExists,   \* os.path.exists(IMAGE_DIR)
    file,        \* rows of new_look.csv; exists tells whether it is there
    imgFile,     \* the destination file of the running or last save_image call
    fetchLog,    \* history: the get_json calls (page, outcome, numberOfPages of
                 \* the payload, the output file when the call was made)
    saveLog,     \* history: calls of save_items (page, first_page, open mode)
    imgLog,      \* history: names save_image was called for
    extracted,   \* history: every item get_items returned, in order
    failure,     \* history: the failure that ended the run, if any
    csvErrors,   \* history: the kinds of output-file failure that happened
    start,       \* history: the file system when scrape() was called
    desc         \* a description text and what re.sub made of it (used by the
                 \* specification of the whitespace collapsing alone)

vars == <<pc, ctx, page, page_count, json, items, idx, gr, dirExists, file,
          imgFile, fetchLog, saveLog, imgLog, extracted, failure, csvErrors,
          start, desc>>

IdleCall == [url |-> <<>>, outcomes |-> <<>>, slept |-> 0, result |-> "none"]

NoFile == [exists |-> FALSE, rows |-> <<>>]

\* No description text is under study.
NoText == [stage |-> "none", text |-> <<>>, once |-> <<>>, twice |-> <<>>]

\* No save_image call was made yet.
NoImage == [name |-> <<>>, before |-> "absent", content |-> "absent"]

\* scrape() is called in a working directory it has not run in before (no
\* img directory, no output file), or in one where an earlier run left the
\* img directory with its images and an output file.
Init ==
    /\ pc = "Init"
    /\ ctx = "none"
    /\ page = 0
    /\ page_count = PyFalse
    /\ json = NoJson
    /\ items = <<>>
    /\ idx = 0
    /\ gr = IdleCall
    /\ dirExists \in BOOLEAN
    /\ file = IF dirExists THEN [exists |-> TRUE, rows |-> OldFile] ELSE NoFile
    /\ imgFile = NoImage
    /\ fetchLog = <<>>
    /\ saveLog = <<>>
    /\ imgLog = <<>>
    /\ extracted = <<>>
    /\ failure = "none"
    /\ csvErrors = {}
    /\ start = [file |-> file, dirExists |-> dirExists, oldImages |-> dirExists]
    /\ desc = NoText


\* ------------------------------------------------------------ get_response
\* The outcomes of one requests.get: a RequestException, a response with
\* status 200, a response with another status.
HttpOutcomes == {"exception", "ok", "error"}

\* range(0, MAX_RETRIES) is used up after n attempts.
ExhaustedOneLate(n) == n > MAX_RETRIES
Exhausted(n) == n >= MAX_RETRIES

\* time.sleep(SLEEP_TIME) in the except branch and in the else branch.
DelayOnlyOnResponse(outcome) == IF outcome = "exception" THEN 0 ELSE SLEEP_TIME
Delay(outcome) == SLEEP_TIME

\* The else branch: a status other than 200 returns False, 200 returns r.
OnResponseRetryStatus(outcome, n) ==
    IF outcome = "ok" THEN "response"
    ELSE IF Exhausted(n) THEN "False" ELSE "pending"
OnResponse(outcome, n) == IF outcome # "ok" THEN "False" ELSE "response"

\* One iteration of the for loop; the loop's exit (print, return False) is
\* taken with the last iteration.
get_response_step(g, outcome) ==
    LET outs == Append(g.outcomes, outcome) IN
    [g EXCEPT !.outcomes = outs,
              !.slept = @ + Delay(outcome),
              !.result = IF outcome = "exception"
                         THEN IF Exhausted(Len(outs)) THEN "False" ELSE "pending"
                         ELSE OnResponse(outcome, Len(outs))]

NewCall(url) == [url |-> url, outcomes |-> <<>>, slept |-> 0, result |-> "pending"]

Attempt ==
    /\ pc = "get_response"
    /\ gr.result = "pending"
    /\ \E outcome \in HttpOutcomes : gr' = get_response_step(gr, outcome)
    /\ UNCHANGED <<pc, ctx, page, page_count, json, items, idx, dirExists, file,
                   imgFile, fetchLog, saveLog, imgLog, extracted, failure,
                   csvErrors, start, desc>>

\* ---------------------------------------------------------------- get_json
\* What r.json() makes of a response body.
Bodies(p, count) ==
    { [kind |-> k, payload |-> NoJson] : k \in {"garbage", "nondict", "nosuccess"} }
    \cup { [kind |-> "ok", payload |-> x] : x \in Payloads(p, count) }

\* get_json after get_response returned: False, the payload, or an exception
\* that get_json does not catch (json.get on a value that is no dict).
get_json(result, body) ==
    IF result = "False" THEN [t |-> "False", json |-> NoJson]
    ELSE IF body.kind = "garbage" THEN [t |-> "False", json |-> NoJson]
    ELSE IF body.kind = "nondict" THEN [t |-> "raise", json |-> NoJson]
    ELSE IF body.kind = "nosuccess" THEN [t |-> "False", json |-> NoJson]
    ELSE [t |-> "json", json |-> body.payload]

\* scrape() calls get_json(0) or get_json(page): get_response starts.
BeginGetJson ==
    /\ pc \in {"FetchFirstPage", "FetchPage"}
    /\ pc' = "get_response"
    /\ ctx' = pc
    /\ gr' = NewCall(<<"JSON_URL">>)
    /\ fetchLog' = Append(fetchLog, [page |-> page, result |-> "pending",
                                     count |-> Absent, file |-> file])
    /\ UNCHANGED <<page, page_count, json, items, idx, dirExists, file, imgFile,
                   saveLog, imgLog, extracted, failure, csvErrors, start, desc>>

\* `if not json: print(FATAL_ERROR_STR); return` after either call.
AfterPageFetchContinue(t, caller) ==
    IF t = "raise" THEN "Crashed"
    ELSE IF caller = "FetchFirstPage"
         THEN (IF t = "False" THEN "Failed" ELSE "ReadPageCount")
         ELSE "ExtractAndWrite"
AfterPageFetch(t, caller) ==
    IF t = "raise" THEN "Crashed"
    ELSE IF t = "False" THEN "Failed"
    ELSE IF caller = "FetchFirstPage" THEN "ReadPageCount" ELSE "ExtractAndWrite"

\* get_response returned to get_json, and get_json to scrape().
GetJsonReturn ==
    /\ pc = "get_response"
    /\ ctx \in {"FetchFirstPage", "FetchPage"}
    /\ gr.result \in {"False", "response"}
    /\ \E body \in (IF gr.result = "False"
                    THEN {[kind |-> "garbage", payload |-> NoJson]}
                    ELSE Bodies(page, page_count)) :
          LET r == get_json(gr.result, body) IN
          /\ json' = r.json
          /\ pc' = AfterPageFetch(r.t, ctx)
          /\ fetchLog' = [fetchLog EXCEPT ![Len(fetchLog)].result = r.t,
                                          ![Len(fetchLog)].count = r.json.numberOfPages]
          /\ failure' = IF r.t = "raise" THEN "raise:get_json"
                        ELSE IF r.t = "False"
                        THEN (IF ctx = "FetchFirstPage" THEN "first" ELSE "page")
                        ELSE failure
    /\ ctx' = "none"
    /\ gr' = IdleCall
    /\ UNCHANGED <<page, page_count, items, idx, dirExists, file, imgFile,
                   saveLog, imgLog, extracted, csvErrors, start, desc>>

\* ------------------------------------------------------------------ scrape
\* os.path.exists / os.mkdir at the top of scrape().
MkDir ==
    /\ pc = "Init"
    /\ \/ /\ dirExists
          /\ pc' = "FetchFirstPage"
          /\ UNCHANGED <<dirExists, failure>>
       \/ /\ ~dirExists
          /\ \E made \in BOOLEAN :
                /\ dirExists' = made
                /\ pc' = IF made THEN "FetchFirstPage" ELSE "Failed"
                /\ failure' = IF made THEN failure ELSE "mkdir"
    /\ UNCHANGED <<ctx, page, page_count, json, items, idx, gr, file, imgFile,
                   fetchLog, saveLog, imgLog, extracted, csvErrors, start, desc>>

\* get_page_count: the nested read, False when a key is missing.
get_page_count_default_one(j) ==
    IF j.numberOfPages = Absent THEN PyInt(1) ELSE j.numberOfPages
get_page_count(j) ==
    IF j.numberOfPages = Absent THEN PyFalse ELSE j.numberOfPages

\* `page_count = get_page_count(json)`, `if not page_count: return`, and the
\* evaluation of range(0, page_count), which raises TypeError for a non-int.
ReadPageCount ==
    /\ pc = "ReadPageCount"
    /\ page_count' = get_page_count(json)
    /\ IF Falsy(page_count')
       THEN pc' = "Failed" /\ failure' = "count"
       ELSE IF page_count'.t # "int"
       THEN pc' = "Crashed" /\ failure' = "raise:range"
       ELSE pc' = "Loop" /\ failure' = failure
    /\ page' = 0
    /\ UNCHANGED <<ctx, json, items, idx, gr, dirExists, file, imgFile, fetchLog,
                   saveLog, imgLog, extracted, csvErrors, start, desc>>

\* `if page > 0`: page 0 was fetched before the loop.
NeedsFetchAlways(p) == TRUE
NeedsFetch(p) == p > 0

\* The head of `for page in range(0, page_count)` and `if page > 0`.
Loop ==
    /\ pc = "Loop"
    /\ pc' = IF page < page_count.v
             THEN (IF NeedsFetch(page) THEN "FetchPage" ELSE "ExtractAndWrite")
             ELSE "Done"
    /\ UNCHANGED <<ctx, page, page_count, json, items, idx, gr, dirExists, file,
                   imgFile, fetchLog, saveLog, imgLog, extracted, failure,
                   csvErrors, start, desc>>

\* --------------------------------------------------------------- get_items
\* The body of the try block raises (KeyError, IndexError) for this entry.
EntryRaises(raw) == ~raw.fields \/ Len(raw.images) = 0

\* new_item: 'image' is 'https:' + item['images'][0]['url'].
NewItem(raw) == [name |-> raw.id, image |-> <<"https:">> \o raw.images[1]]

\* The for loop of get_items over json['data']['results']: an entry whose
\* try block raises is skipped, every other one is appended.
RECURSIVE get_items_stop_at_error(_, _)
get_items_stop_at_error(results, acc) ==
    IF results = <<>> THEN acc
    ELSE IF EntryRaises(Head(results)) THEN acc
    ELSE get_items_stop_at_error(Tail(results), Append(acc, NewItem(Head(results))))

RECURSIVE get_items_loop(_, _)
get_items_loop(results, acc) ==
    IF results = <<>> THEN acc
    ELSE IF EntryRaises(Head(results)) THEN get_items_loop(Tail(results), acc)
    ELSE get_items_loop(Tail(results), Append(acc, NewItem(Head(results))))

get_items_aborting(results) == get_items_stop_at_error(results, <<>>)
get_items(results) == get_items_loop(results, <<>>)

\* `get_items(json)` in scrape(): json['data']['results'] is read outside the
\* try block, so a payload without it raises KeyError out of scrape().
\* json is not read again after this call (line 219 assigns it before the
\* next read), so the model forgets it here.
GetItems ==
    /\ pc = "ExtractAndWrite"
    /\ IF json.results.present
       THEN /\ items' = get_items(json.results.list)
            /\ extracted' = extracted \o items'
            /\ pc' = "save_items"
            /\ failure' = failure
       ELSE /\ pc' = "Crashed"
            /\ failure' = "raise:get_items"
            /\ UNCHANGED <<items, extracted>>
    /\ json' = NoJson
    /\ UNCHANGED <<ctx, page, page_count, idx, gr, dirExists, file, imgFile,
                   fetchLog, saveLog, imgLog, csvErrors, start, desc>>

\* -------------------------------------------------------------- save_items
\* 'w' if first_page else 'a'
OpenModeAlwaysAppend(first_page) == "a"
OpenModeAlwaysWrite(first_page) == "w"
OpenMode(first_page) == IF first_page THEN "w" ELSE "a"

\* `page == 0`, the first_page argument scrape() passes.
FirstPageAlways(p) == TRUE
FirstPage(p) == p = 0

\* open(filename, mode): 'w' truncates, 'a' keeps the rows; both create.
Opened(f, mode) ==
    [exists |-> TRUE, rows |-> IF mode = "w" THEN <<>> ELSE f.rows]

\* The batch is over (the with block is left, save_items returns) and the for
\* loop of scrape() moves to the next page.
NextPage ==
    /\ pc' = "Loop"
    /\ page' = page + 1

\* `except OSError` / `except Exception` of save_items: the failure is
\* printed, save_items returns and scrape() moves to the next page.
BatchFailurePropagates ==
    /\ pc' = "Crashed"
    /\ page' = page
BatchAbandoned == NextPage

\* save_items up to the for loop: open, and the header row if first_page.
SaveOpen ==
    /\ pc = "save_items"
    /\ LET first_page == FirstPage(page)
           mode == OpenMode(first_page) IN
       /\ saveLog' = Append(saveLog, [page |-> page, first_page |-> first_page,
                                      mode |-> mode])
       /\ \/ \* open raises OSError
             /\ csvErrors' = csvErrors \cup {IF first_page THEN "open w" ELSE "open a"}
             /\ BatchAbandoned
             /\ UNCHANGED <<file, idx>>
          \/ \* the file is open, writerow(titles) raises OSError
             /\ first_page
             /\ file' = Opened(file, mode)
             /\ csvErrors' = csvErrors \cup {"header"}
             /\ BatchAbandoned
             /\ UNCHANGED idx
          \/ \* the file is open and the header, if any, is written
             /\ file' = [Opened(file, mode) EXCEPT
                            !.rows = IF first_page THEN Append(@, HeaderRow) ELSE @]
             /\ idx' = 1
             /\ pc' = "save_items:for"
             /\ UNCHANGED <<page, csvErrors>>
    /\ UNCHANGED <<ctx, page_count, json, items, gr, dirExists, imgFile, fetchLog,
                   imgLog, extracted, failure, start, desc>>

\* The file img/<name> as save_image finds it: every image name belongs to
\* one product, so the run has not written it before; it is there only if an
\* earlier run left it.
Destination(name) ==
    LET before == IF start.oldImages THEN "old" ELSE "absent" IN
    [name |-> name, before |-> before, content |-> before]

\* The head of `for item in items`: the next record's save_image call starts
\* get_response, or the batch is complete.
SaveItem ==
    /\ pc = "save_items:for"
    /\ IF idx <= Len(items)
       THEN /\ pc' = "get_response"
            /\ ctx' = "save_image"
            /\ gr' = NewCall(items[idx].image)
            /\ imgLog' = Append(imgLog, [name |-> Last(items[idx].image),
                                         page |-> page])
            /\ imgFile' = Destination(Last(items[idx].image))
            /\ UNCHANGED page
       ELSE /\ NextPage
            /\ UNCHANGED <<ctx, gr, imgLog, imgFile>>
    /\ UNCHANGED <<page_count, json, items, idx, dirExists, file,
                   fetchLog, saveLog, extracted, failure, csvErrors, start, desc>>

\* -------------------------------------------------------------- save_image
\* What the disk does to open(filename, 'wb') and f.write.
DiskOutcomes == {"ok", "open fails", "write fails"}

\* save_image after get_response returned, on a destination file whose
\* content is `content` ("absent" when there is none): open(filename, 'wb') truncates
\* the file before r.content is read, so with r = False the AttributeError
\* comes after the truncation.  Both except clauses swallow the exception.
save_image_uncaught(content, result, disk) ==
    IF disk = "open fails" THEN [content |-> content, raised |-> FALSE]
    ELSE IF result = "False" THEN [content |-> "empty", raised |-> TRUE]
    ELSE IF disk = "write fails" THEN [content |-> "empty", raised |-> FALSE]
    ELSE [content |-> "image", raised |-> FALSE]
save_image(content, result, disk) ==
    IF disk = "open fails" THEN [content |-> content, raised |-> FALSE]
    ELSE IF result = "False" THEN [content |-> "empty", raised |-> FALSE]
    ELSE IF disk = "write fails" THEN [content |-> "empty", raised |-> FALSE]
    ELSE [content |-> "image", raised |-> FALSE]

\* item['image'] = 'file:///' + os.path.join(os.getcwd(), IMAGE_DIR,
\* image_url.split('/')[-1])
RewrittenKeepsUrl(item) == item
Rewritten(item) == [item EXCEPT !.image = LocalRef(Last(@))]

\* The rest of one loop iteration of save_items: save_image returns, the
\* record's image field is rewritten and its row written.
SaveImageReturn ==
    /\ pc = "get_response"
    /\ ctx = "save_image"
    /\ gr.result \in {"False", "response"}
    /\ ctx' = "none"
    /\ gr' = IdleCall
    /\ LET item == items[idx] IN
       \E disk \in (IF gr.result = "False" THEN DiskOutcomes \ {"write fails"}
                    ELSE DiskOutcomes) :
          LET saved == save_image(imgFile.content, gr.result, disk) IN
          /\ imgFile' = [imgFile EXCEPT !.content = saved.content]
          /\ IF saved.raised
             THEN \* caught by `except Exception` of save_items
                  /\ csvErrors' = csvErrors \cup {"image"}
                  /\ BatchAbandoned
                  /\ UNCHANGED <<items, file, idx>>
             ELSE /\ items' = [items EXCEPT ![idx] = Rewritten(item)]
                  /\ \/ \* writer.writerow succeeds
                        /\ file' = [file EXCEPT !.rows = Append(@, DataRow(items'[idx]))]
                        /\ idx' = idx + 1
                        /\ pc' = "save_items:for"
                        /\ UNCHANGED <<page, csvErrors>>
                     \/ \* writer.writerow raises OSError
                        /\ csvErrors' = csvErrors \cup {"row"}
                        /\ BatchAbandoned
                        /\ UNCHANGED <<file, idx>>
    /\ UNCHANGED <<page_count, json, dirExists, fetchLog, saveLog, imgLog,
                   extracted, failure, start, desc>>

\* --------------------------------------------------------------------------
Next ==
    \/ MkDir
    \/ BeginGetJson
    \/ Attempt
    \/ GetJsonReturn
    \/ ReadPageCount
    \/ Loop
    \/ GetItems
    \/ SaveOpen
    \/ SaveItem
    \/ SaveImageReturn

Spec == Init /\ [][Next]_vars

\* ------------------------------------------- re.sub(r'\s+', ' ', text)
\* Longest description text, in characters.
MaxLen == 4

\* The characters of a text: a letter and three whitespace characters.
Chars == {"a", " ", "\n", "\t"}
\* \s
IsSpace(c) == c \in {" ", "\n", "\t"}
Texts == UNION { [1 .. n -> Chars] : n \in 0 .. MaxLen }

\* The match of \s+ that starts at position i (s[i] is whitespace): + is
\* greedy, the match ends with the last character of the run.
MatchEndAtMostTwo(s, i) ==
    IF i < Len(s) /\ IsSpace(s[i + 1]) THEN i + 1 ELSE i
RECURSIVE MatchEnd(_, _)
MatchEnd(s, i) ==
    IF i < Len(s) /\ IsSpace(s[i + 1]) THEN MatchEnd(s, i + 1) ELSE i

\* re.sub scans the text from the left: where \s+ matches, the match is
\* replaced by ' ' and the scan goes on behind it; any other character is
\* copied.
RECURSIVE sub_scan(_, _, _)
sub_scan(s, i, out) ==
    IF i > Len(s) THEN out
    ELSE IF IsSpace(s[i])
         THEN sub_scan(s, MatchEnd(s, i) + 1, Append(out, " "))
         ELSE sub_scan(s, i + 1, Append(out, s[i]))
collapse_whitespace(s) == sub_scan(s, 1, <<>>)

\* get_items computes the description of an entry whose text is desc.text.
CollapseDescription ==
    /\ desc.stage = "text"
    /\ desc' = [desc EXCEPT !.stage = "once", !.once = collapse_whitespace(desc.text)]
    /\ UNCHANGED <<pc, ctx, page, page_count, json, items, idx, gr, dirExists,
                   file, imgFile, fetchLog, saveLog, imgLog, extracted, failure,
                   csvErrors, start>>

\* The collapsing is applied to its own result.
CollapseAgain ==
    /\ desc.stage = "once"
    /\ desc' = [desc EXCEPT !.stage = "twice", !.twice = collapse_whitespace(desc.once)]
    /\ UNCHANGED <<pc, ctx, page, page_count, json, items, idx, gr, dirExists,
                   file, imgFile, fetchLog, saveLog, imgLog, extracted, failure,
                   csvErrors, start>>

\* The collapsing alone: get_items is at an entry whose description text is
\* any text of up to MaxLen characters.
InitCollapse ==
    /\ pc = "get_items"
    /\ ctx = "none"
    /\ page = 0
    /\ page_count = PyFalse
    /\ json = NoJson
    /\ items = <<>>
    /\ idx = 0
    /\ gr = IdleCall
    /\ dirExists = TRUE
    /\ file = NoFile
    /\ imgFile = NoImage
    /\ fetchLog = <<>>
    /\ saveLog = <<>>
    /\ imgLog = <<>>
    /\ extracted = <<>>
    /\ failure = "none"
    /\ csvErrors = {}
    /\ start = [file |-> file, dirExists |-> dirExists, oldImages |-> FALSE]
    /\ \E t \in Texts : desc = [NoText EXCEPT !.stage = "text", !.text = t]

NextCollapse ==
    \/ CollapseDescription
    \/ CollapseAgain

SpecCollapse == InitCollapse /\ [][NextCollapse]_vars

TypeOK ==
    /\ pc \in {"Init", "FetchFirstPage", "ReadPageCount", "Loop", "FetchPage",
               "ExtractAndWrite", "save_items", "save_items:for", "get_response",
               "Done", "Failed", "Crashed"}
    /\ ctx \in {"none", "FetchFirstPage", "FetchPage", "save_image"}
    /\ page \in 0 .. MaxPages
    /\ idx \in 0 .. MaxItems + 1
    /\ Len(items) <= MaxItems
    /\ gr.result \in {"none", "pending", "False", "response"}
    /\ csvErrors \subseteq {"open w", "open a", "header", "row", "image"}

\* ======================================================================
\* Facts about a run, read off the histories.
\* ======================================================================
\* N, the page count scrape() loops to (defined once it is an int).
N == page_count.v

\* The row save_items writes for an item get_items returned.
ExpectedRow(it) ==
    [kind |-> "data", name |-> it.name,
     image |-> <<"file:///", "cwd", "img", it.image[Len(it.image)]>>]
ExpectedRows(its) == [i \in 1 .. Len(its) |-> ExpectedRow(its[i])]

\* os.mkdir failed.
MkdirFailed == pc # "Init" /\ ~dirExists
\* The i-th get_json call returned False.
FetchFailed(i) == i \in 1 .. Len(fetchLog) /\ fetchLog[i].result = "False"
\* get_json(0) succeeded and get_page_count found no count, or a zero one.
CountFailed ==
    /\ Len(fetchLog) >= 1
    /\ fetchLog[1].result = "json"
    /\ fetchLog[1].count \in {Absent, PyInt(0)}
    /\ pc # "ReadPageCount"
\* No open and no write of the output file failed.
NoCsvFailure == csvErrors = {}

\* Every write call so far: page i-1 is the i-th call, the first one alone
\* asks for the header and opens with 'w', the others open with 'a'.
HeaderOnlyForPageZero ==
    \A i \in 1 .. Len(saveLog) :
        /\ saveLog[i].page = i - 1
        /\ saveLog[i].first_page = (i = 1)
        /\ saveLog[i].mode = IF i = 1 THEN "w" ELSE "a"

\* ======================================================================
\* Claims
\* ======================================================================

\* C1 (as stated): in every run in which get_json succeeds for all pages
\* 0..N-1 (N >= 1 pages), the file at the end of the run is one header row
\* followed by one data row per extracted item, in page-then-item order; only
\* the page-0 write call asks for the header and every later one appends.
C1_AsStated ==
    (pc = "Done" /\ N >= 1) =>
        /\ file.exists
        /\ file.rows = <<HeaderRow>> \o ExpectedRows(extracted)
        /\ HeaderOnlyForPageZero

\* C1 (amended): in every run that reaches Done with a page count N >= 1 and
\* in which no open or write of the output file failed, the file is one
\* header row followed by one data row per extracted item, in page-then-item
\* order; in every run only the page-0 write call asks for the header and
\* every later write call appends.
C1_FileIsHeaderPlusRows ==
    /\ HeaderOnlyForPageZero
    /\ (pc = "Done" /\ N >= 1 /\ NoCsvFailure) =>
          /\ file.exists
          /\ file.rows = <<HeaderRow>> \o ExpectedRows(extracted)
          /\ Len(saveLog) = N

C1_Witness ==
    /\ pc = "Done"
    /\ N = 2
    /\ NoCsvFailure
    /\ Len(extracted) >= 3
    /\ Len(file.rows) = Len(extracted) + 1
    /\ extracted[Len(extracted)].name[1] = 1

\* C2: when the fetch of a page k with 0 < k < N fails, scrape() ends in
\* Failed with no page fetch, image download or file write for pages k..N-1,
\* and the file is what it was when the fetch of page k began.
C2_FailedPageStopsRun ==
    \A i \in 2 .. Len(fetchLog) :
        FetchFailed(i) =>
            LET k == fetchLog[i].page IN
            /\ pc = "Failed"
            /\ 0 < k /\ k < N
            /\ i = Len(fetchLog)
            /\ \A j \in 1 .. i - 1 : fetchLog[j].page < k
            /\ \A j \in 1 .. Len(saveLog) : saveLog[j].page < k
            /\ \A j \in 1 .. Len(imgLog) : imgLog[j].page < k
            /\ file = fetchLog[i].file

C2_Witness ==
    /\ pc = "Failed"
    /\ FetchFailed(2)
    /\ N = 2
    /\ Len(file.rows) >= 3
    /\ file.rows[1] = HeaderRow

\* C3: a get_response call in which every attempt raises issues exactly
\* MAX_RETRIES requests, sleeps SLEEP_TIME after each one and returns False;
\* no call issues more than MAX_RETRIES requests.
AllRaised(g) == \A i \in 1 .. Len(g.outcomes) : g.outcomes[i] = "exception"
C3_RetryCeiling ==
    /\ Len(gr.outcomes) <= MAX_RETRIES
    /\ gr.slept = Len(gr.outcomes) * SLEEP_TIME
    /\ (AllRaised(gr) /\ gr.result \in {"False", "response"}) =>
          (Len(gr.outcomes) = MAX_RETRIES /\ gr.result = "False")
    /\ (AllRaised(gr) /\ Len(gr.outcomes) = MAX_RETRIES) => gr.result = "False"

C3_Witness ==
    /\ pc = "get_response"
    /\ gr.outcomes = <<"exception", "exception", "exception">>
    /\ gr.result = "False"
    /\ gr.slept = MAX_RETRIES * SLEEP_TIME

\* C4: the first attempt that receives a response ends the call: a status
\* other than 200 returns False at once, status 200 returns the response;
\* only an exception leads to another attempt.
C4_ResponseEndsCall ==
    /\ \A i \in 1 .. Len(gr.outcomes) :
          gr.outcomes[i] # "exception" =>
              /\ i = Len(gr.outcomes)
              /\ gr.result = IF gr.outcomes[i] = "ok" THEN "response" ELSE "False"
    /\ (gr.result = "pending" => AllRaised(gr))

C4_Witness ==
    /\ pc = "get_response"
    /\ gr.outcomes = <<"error">>
    /\ gr.result = "False"

\* C5: Done is reached only if the page count was read from page 0 as a
\* non-zero value and get_json succeeded for every page 0..N-1; whenever the
\* directory creation, the page-0 fetch, the page-count read or a later page
\* fetch fails, the run is in Failed (a terminal state, so never in Done).
C5_DoneOnlyAfterAllPages ==
    /\ pc = "Done" =>
          /\ page_count.t = "int" /\ N # 0
          /\ Len(fetchLog) >= 1
          /\ fetchLog[1].count = page_count
          /\ \A p \in 0 .. N - 1 :
                /\ p + 1 <= Len(fetchLog)
                /\ fetchLog[p + 1].page = p
                /\ fetchLog[p + 1].result = "json"
    /\ (MkdirFailed \/ CountFailed \/ \E i \in 1 .. Len(fetchLog) : FetchFailed(i))
          => pc = "Failed"

C5_Witness ==
    /\ pc = "Done"
    /\ N = 2
    /\ Len(fetchLog) = 2
    /\ fetchLog[2].result = "json"

\* C6: a run that fails in Init (mkdir), FetchFirstPage (get_json(0)) or
\* ReadPageCount (count missing or zero) ends in Failed having written
\* nothing: the output file is as it was at the start, no write call and no
\* image download was made.
C6_EarlyFailureWritesNothing ==
    (MkdirFailed \/ FetchFailed(1) \/ CountFailed) =>
        /\ pc = "Failed"
        /\ file = start.file
        /\ saveLog = <<>>
        /\ imgLog = <<>>
        /\ imgFile = NoImage

C6_Witness ==
    /\ CountFailed
    /\ fetchLog[1].count = PyInt(0)
    /\ pc = "Failed"
    /\ start.file.exists
    /\ file.rows = OldFile

\* C7: an entry whose image list is empty, or that lacks a required key, is
\* absent from the list get_items returns and from the output file, while
\* every other entry of the page is extracted, and written, in its original
\* relative order.
EntryIsWhole(raw) == raw.fields /\ Len(raw.images) >= 1
ItemOf(raw) == [name |-> raw.id, image |-> <<"https:">> \o raw.images[1]]
KeptItems(results) ==
    LET kept == SelectSeq(results, EntryIsWhole) IN
    [i \in 1 .. Len(kept) |-> ItemOf(kept[i])]
\* The step of get_items returns exactly the whole entries, in order.
GetItemsKeepsTheOthers ==
    (pc = "ExtractAndWrite" /\ json.results.present) =>
        /\ items' = KeptItems(json.results.list)
        /\ extracted' = extracted \o items'
        /\ pc' = "save_items"
\* While a batch is written, the rows it has added are those of the items
\* before idx, in order; every row of the run is the row of an extracted item.
BatchRowsFollowItems ==
    /\ pc = "save_items:for" =>
          /\ idx - 1 <= Len(file.rows)
          /\ \A i \in 1 .. idx - 1 :
                file.rows[Len(file.rows) - (idx - 1) + i].name = items[i].name
    /\ \A i \in 1 .. Len(file.rows) :
          (file.rows[i].kind = "data" /\ file.rows[i].name # OldId) =>
              \E j \in 1 .. Len(extracted) : extracted[j].name = file.rows[i].name
C7_SkippedItemOthersKept ==
    [][GetItemsKeepsTheOthers]_vars /\ []BatchRowsFollowItems

\* A page whose first entry has no image and whose second entry is whole:
\* the second entry alone is extracted and its row written.
C7_Witness ==
    /\ pc = "Loop"
    /\ page = 1
    /\ NoCsvFailure
    /\ Len(extracted) = 1
    /\ extracted[1].name = ItemId(0, 2)
    /\ Len(file.rows) = 2
    /\ file.rows[2].name = ItemId(0, 2)

\* C8: a failed image download (get_response returned False, or the image
\* file could not be written) neither keeps the record's row from being
\* written nor stops the batch: unless the row write itself fails, the step
\* appends the row, with the file:/// reference of the intended local path in
\* its Image column, and goes on to the next record; no row of the run ever
\* holds the remote URL.
ImageStepWritesRow ==
    (pc = "get_response" /\ ctx = "save_image" /\ pc' # "get_response"
        /\ (gr.result = "False" \/ imgFile'.content # "image")) =>
        \/ /\ file'.rows = Append(file.rows, ExpectedRow(items[idx]))
           /\ idx' = idx + 1
           /\ pc' = "save_items:for"
           /\ csvErrors' = csvErrors
        \/ \* writer.writerow raised
           /\ csvErrors' = csvErrors \cup {"row"}
           /\ file' = file
           /\ pc' = "Loop"
RowsHoldLocalRefs ==
    \A i \in 1 .. Len(file.rows) :
        file.rows[i].kind = "data" =>
            file.rows[i].image = <<"file:///", "cwd", "img", file.rows[i].name>>
C8_ImageFailureKeepsRow ==
    [][ImageStepWritesRow]_vars /\ []RowsHoldLocalRefs

\* The image of the first of two records failed; its row is in the file and
\* save_items is about to process the second record.
C8_Witness ==
    /\ pc = "save_items:for"
    /\ idx = 2
    /\ Len(items) = 2
    /\ imgFile.name = ItemId(page, 1)
    /\ imgFile.content # "image"
    /\ file.rows[Len(file.rows)] =
          [kind |-> "data", name |-> ItemId(page, 1),
           image |-> <<"file:///", "cwd", "img", ItemId(page, 1)>>]

\* C9: get_items never fails as a whole: for every payload get_json returned
\* as successful it returns a list and does not raise, so no page takes
\* scrape() out of its Done/Failed control flow.
C9_GetItemsNeverRaises ==
    ~(pc = "Crashed" /\ failure = "raise:get_items")

\* C10 (as stated): a run that starts with an output file of an earlier run
\* and reaches Done (N >= 1 pages) leaves a file that holds only rows of the
\* current run under a single header: no row of the earlier run, no second
\* header; the page-0 write opens with 'w' and all later writes append.
OnlyThisRunUnderOneHeader ==
    /\ file.exists
    /\ Len(file.rows) >= 1
    /\ file.rows[1] = HeaderRow
    /\ \A i \in 2 .. Len(file.rows) :
          /\ file.rows[i].kind = "data"
          /\ file.rows[i].name # OldId
          /\ \E j \in 1 .. Len(extracted) : file.rows[i] = ExpectedRow(extracted[j])
    /\ HeaderOnlyForPageZero
C10_AsStated ==
    (start.file.exists /\ pc = "Done" /\ N >= 1) => OnlyThisRunUnderOneHeader

\* C10 (amended): a run that starts with an output file of an earlier run
\* and reaches Done with a page count N >= 1, and whose page-0 write call
\* opened the file and wrote the header without failure, leaves a file that
\* holds only rows of the current run under a single header.
C10_RerunReplacesFile ==
    (start.file.exists /\ pc = "Done" /\ N >= 1
        /\ csvErrors \cap {"open w", "header"} = {}) => OnlyThisRunUnderOneHeader

C10_Witness ==
    /\ start.file.exists
    /\ pc = "Done"
    /\ N = 2
    /\ csvErrors \cap {"open w", "header"} = {}
    /\ Len(file.rows) >= 3
    /\ file.rows[Len(file.rows)].name[1] = 1

\* C11: when the open or a write of the output file fails in save_items for
\* page k, the rest of the batch is abandoned (no further image download or
\* row write for page k), the failure is caught, and scrape() goes on to the
\* next page; every page still gets its fetch and its write call, and the run
\* can reach Done.
\* A step of save_items in which the open, the header write or a row write
\* did not happen.
CsvFailureStep ==
    \/ pc = "save_items" /\ pc' # "save_items:for"
    \/ pc = "get_response" /\ ctx = "save_image" /\ pc' # "get_response"
          /\ file' = file
CsvFailureAbandonsBatch ==
    CsvFailureStep =>
        /\ pc' = "Loop"
        /\ page' = page + 1
        /\ imgLog' = imgLog
        /\ \/ file'.rows = file.rows
           \/ pc = "save_items" /\ page = 0 /\ file'.rows = <<>>
\* Image downloads and write calls are for the current page alone, and a page
\* that was left is behind the loop variable for good.
OnlyTheCurrentPageIsWritten ==
    /\ [][page' >= page]_vars
    /\ [][imgLog' # imgLog =>
             /\ pc = "save_items:for"
             /\ imgLog' = Append(imgLog, [name |-> items[idx].name, page |-> page])]_vars
    /\ [][file' # file => pc \in {"save_items", "get_response"}]_vars
    /\ [](pc = "Loop" => \A i \in 1 .. Len(imgLog) : imgLog[i].page < page)
\* At Done every page 0..N-1 had its write call, failed or not.
DoneAfterEveryWriteCall ==
    (pc = "Done" /\ N >= 1) =>
        /\ Len(saveLog) = N
        /\ \A i \in 1 .. N : saveLog[i].page = i - 1
C11_CsvFailureAbandonsBatchOnly ==
    /\ [][CsvFailureAbandonsBatch]_vars
    /\ OnlyTheCurrentPageIsWritten
    /\ []DoneAfterEveryWriteCall

\* The first row write of page 0 failed: the second record of page 0 was
\* never processed, page 1 was fetched and written, and the run is in Done.
C11_Witness ==
    /\ pc = "Done"
    /\ N = 2
    /\ csvErrors = {"row"}
    /\ Len(extracted) = 3
    /\ extracted[2].name = ItemId(0, 2)
    /\ imgLog = << [name |-> ItemId(0, 1), page |-> 0],
                   [name |-> ItemId(1, 1), page |-> 1] >>
    /\ Len(file.rows) = 2
    /\ file.rows[1] = HeaderRow
    /\ file.rows[2].name = ItemId(1, 1)

\* C12: the whitespace collapsing of the description is idempotent: applied
\* to its own result it returns that result.
C12_CollapseIdempotent ==
    desc.stage = "twice" => desc.twice = desc.once

\* A text with a run of four whitespace characters, collapsed twice.
C12_Witness ==
    /\ desc.stage = "twice"
    /\ desc.text = <<" ", "\n", "\t", " ">>
    /\ desc.once = <<" ">>
    /\ desc.twice = <<" ">>

\* C13: get_json is called at most once per page index, in strictly
\* increasing index order from 0; the payload of the single page-0 fetch
\* serves the page count and the first loop iteration; page k+1 is not
\* fetched before the extraction and the write of page k are over.
InExtractAndWrite ==
    \/ pc \in {"ExtractAndWrite", "save_items", "save_items:for"}
    \/ pc = "get_response" /\ ctx = "save_image"
C13_FetchOrder ==
    /\ \A i \in 1 .. Len(fetchLog) : fetchLog[i].page = i - 1
    /\ Len(fetchLog) <= page + 1
    /\ InExtractAndWrite =>
          /\ Len(fetchLog) = page + 1
          /\ fetchLog[page + 1].result = "json"
          /\ Len(saveLog) \in {page, page + 1}
    /\ (pc = "ReadPageCount" \/ (pc = "ExtractAndWrite" /\ page = 0)) =>
          /\ Len(fetchLog) = 1
          /\ json.numberOfPages = fetchLog[1].count
    /\ (pc = "get_response" /\ ctx = "FetchPage") =>
          /\ Len(saveLog) = page
          /\ saveLog[page].page = page - 1

\* Page 1 is being fetched after page 0 was extracted and written.
C13_Witness ==
    /\ pc = "get_response"
    /\ ctx = "FetchPage"
    /\ page = 1
    /\ Len(fetchLog) = 2
    /\ fetchLog[1].page = 0
    /\ fetchLog[2].page = 1
    /\ Len(extracted) = 2
    /\ Len(file.rows) = 3

\* C14: at every point of a run in which no open or write of the output
\* file has failed, once the page-0 write call has opened the file its data
\* rows are a prefix of the page-then-item sequence of the extracted items
\* (the earlier pages in full, then the rows of the current page so far), and
\* the image download of a record is attempted before its row is written.
IsPrefix(s, t) ==
    /\ Len(s) <= Len(t)
    /\ \A i \in 1 .. Len(s) : s[i] = t[i]
C14_RowsArePrefix ==
    (NoCsvFailure /\ Len(saveLog) >= 1) =>
        /\ file.exists
        /\ IsPrefix(file.rows, <<HeaderRow>> \o ExpectedRows(extracted))
        /\ Len(file.rows) >= 1
        /\ LET written == Len(file.rows) - 1 IN
           /\ (pc = "save_items:for" \/ (pc = "get_response" /\ ctx = "save_image")) =>
                 written = Len(extracted) - Len(items) + (idx - 1)
           /\ pc \in {"Loop", "FetchPage", "ExtractAndWrite", "Done", "Failed",
                      "Crashed"} => written = Len(extracted)
           /\ written <= Len(imgLog)
           /\ Len(imgLog) <= written + 1
           /\ \A i \in 1 .. written : imgLog[i].name = file.rows[i + 1].name

\* In page 1, the first record's row is written after both rows of page 0,
\* and the image of the second record is being fetched, its row not written.
C14_Witness ==
    /\ NoCsvFailure
    /\ pc = "get_response"
    /\ ctx = "save_image"
    /\ page = 1
    /\ idx = 2
    /\ Len(extracted) = 4
    /\ Len(file.rows) = 4
    /\ file.rows[4].name = ItemId(1, 1)
    /\ Len(imgLog) = 4
    /\ imgLog[4].name = ItemId(1, 2)

\* C15: save_image modifies the destination file only when the image fetch
\* succeeded: when get_response returned False for the image URL, a file
\* already at the destination keeps its content and no new file is created.
FailedFetchLeavesImageFile ==
    (pc = "get_response" /\ ctx = "save_image" /\ gr.result = "False"
        /\ pc' # "get_response") => imgFile'.content = imgFile.content
C15_FailedFetchKeepsImageFile == [][FailedFetchLeavesImageFile]_vars

\* C16: every run of scrape() ends in one of the two terminal states Done
\* and Failed, whatever the page count and the outcomes of the fetches, the
\* parsing, the extraction, the image downloads and the file writes; no page
\* fetch and no image download issues more than MAX_RETRIES requests.
C16_EndsInDoneOrFailed ==
    /\ ~(ENABLED Next) => pc \in {"Done", "Failed"}
    /\ Len(gr.outcomes) <= MAX_RETRIES

\* The part of C16 the code keeps: with every request returning or timing
\* out, each step of scrape() is taken, and the run stops (in Done, in Failed,
\* or with an exception that leaves scrape()).
FairSpec == Spec /\ WF_vars(Next)
RunStops == <>(pc \in {"Done", "Failed", "Crashed"})

====
